---- MODULE Spec2Model ----
(***************************************************************************)
(* AgentForge: the Agent execution pipeline (src/agentforge/agent.py) and  *)
(* the Logger multiplexer (src/agentforge/utils/functions/Logger.py).      *)
(*                                                                         *)
(* The specifications of this module:                                      *)
(*   Spec        one Agent instance, any number of sequential run() calls, *)
(*               one action per pipeline stage;                            *)
(*   FairSpec    Spec with weak fairness on the stage steps: run() is      *)
(*               synchronous, a stage that was entered returns or faults;  *)
(*   SpecRender  generate_prompt and run_llm on every list of prompt       *)
(*               templates up to MaxTemplates;                             *)
(*   SpecRuns    overlapping run() calls on one instance, one action per   *)
(*               stage of a call;                                          *)
(*   SpecLog     the process-wide logging registry under sequential        *)
(*               BaseLogger / Logger constructions, set_level and log_msg; *)
(*   SpecMux     a constructed Logger: log, set_level, further             *)
(*               constructions;                                            *)
(*   SpecLogConc two threads constructing a Logger, one action per         *)
(*               statement group a thread can be preempted between.        *)
(*                                                                         *)
(* An optional Python value is a tuple: <<>> is None (or a missing key or  *)
(* an unset attribute), <<x>> is the value x.  A text is a sequence of     *)
(* one-character strings, a dict is a function.                            *)
(*                                                                         *)
(* The Agent's own logger calls (levels 'info' and 'error' on the default  *)
(* channel) are taken not to fault: the default channel is configured.     *)
(***************************************************************************)
EXTENDS Integers, Sequences, FiniteSets, TLC

VARIABLES
    \* ---- Agent instance (agent.py)
    pc,           \* position of run(): the stage about to execute, or Idle/Done/Aborted
    functionsOk,  \* self.functions was bound by __init__
    storage,      \* self.storage (bound by __init__ only)
    agent_data,   \* self.agent_data
    data,         \* self.data
    prompt,       \* self.prompt
    result,       \* self.result
    output,       \* self.output
    \* ---- observations of the current run() call
    kwargs,       \* the keyword arguments of the call
    returned,     \* the value run() returned (meaningful in Done/Aborted)
    trace,        \* the stages started by this call, in order
    loadFault,    \* the configuration reload faulted in this call
    llmCall,      \* <<>> or <<[model, prompt, params]>>: the client call of this run
    llmOut,       \* <<>> not called/faulted, or <<t>>: the text the client returned
    llmFault,     \* run_llm caught a fault in this call
    saved,        \* the save_memory calls that reached a storage backend
    saveFault,    \* save_result caught a fault in this call
    faultAt,      \* the stage whose fault reached run()'s handler, or "none"
    custom,       \* an override point did something else than its default body
    logged,       \* the levels of the Agent's log calls in this call
    \* ---- logging registry (Logger.py)
    enabled,      \* config: Logging.Enabled
    files,        \* config: Logging.Files, channel -> level name
    handlers,     \* every handler object ever created: [kind, key, level]
    file_handlers,    \* BaseLogger.file_handlers: file name -> handler
    console_handlers, \* BaseLogger.console_handlers: logger name -> handler
    loggerLevel,  \* logging.getLogger(name).level, 0 while never set
    attached,     \* logging.getLogger(name).handlers, in order
    made,         \* channel -> a BaseLogger object of that name exists
    out,          \* the records the last call wrote to each handler
    rootOut,      \* the records the last call wrote to the root logger's handler
    raised,       \* the fault the last call ended with, "none" if it returned
    lastOp,       \* the last operation and its arguments
    lastSet,      \* <<[chan, level]>> while set_level is the latest change of thresholds
    calls,        \* the log_msg calls the last call made: [chan, msg, level], in order
    \* ---- threads constructing a BaseLogger (SpecLogConc)
    tpc,          \* thread -> position in BaseLogger.__init__
    tchan,        \* thread -> index in ChannelOrder of the BaseLogger it constructs
    tfh,          \* thread -> the handler it created and has not stored yet, 0 if none
    \* ---- overlapping run() calls on one Agent instance (SpecRuns)
    rpc,          \* call -> position of that call of run()
    rtext,        \* call -> <<>> or <<t>>: the text the client returned to that call
    rret          \* call -> the value that call returned

agentVars == <<pc, functionsOk, storage, agent_data, data, prompt, result, output,
               kwargs, returned, trace, loadFault, llmCall, llmOut, llmFault,
               saved, saveFault, faultAt, custom, logged>>
logVars == <<enabled, files, handlers, file_handlers, console_handlers, loggerLevel,
             attached, made, out, rootOut, raised, lastOp, lastSet, calls>>
thrVars == <<tpc, tchan, tfh>>
callVars == <<rpc, rtext, rret>>
vars == <<agentVars, logVars, thrVars, callVars>>

(***************************************************************************)
(* Bounds                                                                  *)
(***************************************************************************)
MaxLen == 2          \* longest text the language model client returns

(***************************************************************************)
(* Values                                                                  *)
(***************************************************************************)
None == <<>>
Some(x) == <<x>>
Val(o) == o[1]

Chars == {" ", "a"}
Texts == UNION {[1..n -> Chars] : n \in 0..MaxLen}

RECURSIVE LStrip(_)
LStrip(s) == IF s = <<>> THEN <<>>
             ELSE IF Head(s) = " " THEN LStrip(Tail(s)) ELSE s

RECURSIVE RStrip(_)
RStrip(s) == IF s = <<>> THEN <<>>
             ELSE IF s[Len(s)] = " " THEN RStrip(SubSeq(s, 1, Len(s) - 1)) ELSE s

\* str.strip()
Strip(s) == RStrip(LStrip(s))

\* str.lower() on the keys that occur
Lower(k) == CASE k = "Name" -> "name"
              [] k = "Prompts" -> "prompts"
              [] OTHER -> k

\* a slip: the persona keys are merged as they are spelled
KeepCase(k) == k

\* the key load_persona_data stores a persona entry under
PersonaKey(k) == Lower(k)

\* a dict entry: a tagged value
Str(s) == [t |-> "str", v |-> <<s>>]
Dict(seq) == [t |-> "dict", v |-> seq]

\* dict update d[k] = x
Put(d, k, x) == [j \in DOMAIN d \cup {k} |-> IF j = k THEN x ELSE d[j]]

AgentName == "Agent"

(***************************************************************************)
(* External collaborators of the Agent                                     *)
(***************************************************************************)
\* prompt templates, by what the Prompt Renderer does with them
TemplateKinds == {"A", "empty", "skip", "hfault", "rfault"}

\* handle_prompt_template: None for a template that is to be skipped
HandleFaults(t) == t = "hfault"
HandleSkips(t) == t = "skip"
\* render_prompt_template: the rendered text
RenderFaults(t) == t = "rfault"
RenderText(t) == IF t = "empty" THEN "" ELSE t

PromptChoices == {<<"A">>, <<"skip", "A">>, <<"A", "rfault">>}

\* a persona is the sequence of its entries, in the iteration order of the dict
Entry(k, x) == [k |-> k, v |-> Str(x)]

PersonaChoices == {None, Some(<<>>), Some(<<Entry("Name", "Bot")>>),
                   Some(<<Entry("Prompts", "x")>>),
                   Some(<<Entry("Name", "Bot"), Entry("name", "Al")>>)}

KwargChoices == {<<>>, "name" :> Str("x")}

\* what functions.agent_utils.load_agent_data returns; a missing key is None.
\* The configurations differ from a complete one in one entry.
BaseConfig == [params |-> Some("p1"), prompts |-> Some(<<"A">>), persona |-> None,
               llm |-> Some("M1"), storage |-> Some("S1")]

\* the configuration after a live reconfiguration: other parameters, another
\* model handle, another storage handle
Reconfigured == [BaseConfig EXCEPT !.params = Some("p2"), !.llm = Some("M2"),
                                   !.storage = Some("S2")]

Configs ==
    {[BaseConfig EXCEPT !.params = x] : x \in {None, Some("p1")}}
    \cup {[BaseConfig EXCEPT !.prompts = x] : x \in {None} \cup {Some(ts) : ts \in PromptChoices}}
    \cup {[BaseConfig EXCEPT !.persona = x] : x \in PersonaChoices}
    \cup {[BaseConfig EXCEPT !.llm = x] : x \in {None, Some("M1")}}
    \cup {[BaseConfig EXCEPT !.storage = x] : x \in {None, Some("S1")}}
    \cup {Reconfigured}

\* None: the provider raised, or returned an absent value
ProviderReturns == {None} \cup {Some(c) : c \in Configs}

\* what an override point does when it is called
PlainOutcomes == {"default", "fault"}
FullOutcomes == {"default", "fault", "custom"}
ParsedText == <<"p">>
CustomOut == <<"o">>

Stages == <<"load", "process", "render", "infer", "parse", "persist", "build">>

(***************************************************************************)
(* Agent.__init__                                                          *)
(***************************************************************************)
AgentInit ==
    /\ pc = "Idle"
    /\ data = None /\ prompt = None /\ result = None /\ output = None
    /\ functionsOk \in BOOLEAN
    /\ \E ret \in ProviderReturns :
          /\ agent_data = IF functionsOk THEN ret ELSE None
          /\ storage = IF functionsOk /\ ret # None THEN Val(ret).storage ELSE None
    /\ kwargs = <<>> /\ returned = None /\ trace = <<>> /\ loadFault = FALSE
    /\ llmCall = None /\ llmOut = None /\ llmFault = FALSE
    /\ saved = <<>> /\ saveFault = FALSE /\ faultAt = "none" /\ custom = FALSE
    /\ logged = <<>>

(***************************************************************************)
(* Agent.run: the stage sequence, the except branch, and the call itself   *)
(***************************************************************************)
\* a slip: save_result is left out of the sequence
AfterSkippingPersist(stage) ==
    CASE stage = "load" -> "Processing"
      [] stage = "process" -> "Rendering"
      [] stage = "render" -> "Inferring"
      [] stage = "infer" -> "Parsing"
      [] stage = "parse" -> "Building"
      [] stage = "persist" -> "Building"
      [] stage = "build" -> "Done"

\* where run() is once a stage has returned
After(stage) ==
    CASE stage = "load" -> "Processing"
      [] stage = "process" -> "Rendering"
      [] stage = "render" -> "Inferring"
      [] stage = "infer" -> "Parsing"
      [] stage = "parse" -> "Persisting"
      [] stage = "persist" -> "Building"
      [] stage = "build" -> "Done"

\* a slip: the handler falls through to `return self.output`
AbortReturningOutput(stage, log) ==
    /\ pc' = "Aborted"
    /\ returned' = output
    /\ faultAt' = stage
    /\ logged' = log \o <<"error">>

\* a slip: the handler lets the fault leave run()
AbortRaising(stage, log) ==
    /\ pc' = "Raised"
    /\ returned' = returned
    /\ faultAt' = stage
    /\ logged' = log \o <<"error">>

\* run()'s handler: log at error severity, return None
Abort(stage, log) ==
    /\ pc' = "Aborted"
    /\ returned' = None
    /\ faultAt' = stage
    /\ logged' = log \o <<"error">>

Run(kw) ==
    /\ pc \in {"Idle", "Done", "Aborted"}
    /\ pc' = "Loading"
    /\ kwargs' = kw
    /\ logged' = <<"info">>
    /\ returned' = None /\ trace' = <<>> /\ loadFault' = FALSE
    /\ llmCall' = None /\ llmOut' = None /\ llmFault' = FALSE
    /\ saved' = <<>> /\ saveFault' = FALSE /\ faultAt' = "none" /\ custom' = FALSE
    /\ UNCHANGED <<functionsOk, storage, agent_data, data, prompt, result, output>>
    /\ UNCHANGED <<logVars, thrVars, callVars>>

(***************************************************************************)
(* Stage 1: load_data                                                      *)
(***************************************************************************)
\* load_agent_data: the reload and the merge of kwargs, inside its try
LoadAgentDataOk(ret) ==
    /\ functionsOk
    /\ ret # None
    /\ Val(ret).params # None
    /\ Val(ret).prompts # None

LoadAgentDataMerge(ret, kw) ==
    kw @@ ("params" :> Dict(<<Val(Val(ret).params)>>))
       @@ ("prompts" :> Dict(Val(Val(ret).prompts)))

\* for key in persona: self.data[key.lower()] = persona[key]
RECURSIVE MergePersona(_, _)
MergePersona(entries, d) ==
    IF entries = <<>> THEN d
    ELSE MergePersona(Tail(entries), Put(d, PersonaKey(Head(entries).k), Head(entries).v))

\* load_persona_data on a loaded configuration
LoadPersonaData(cfg, d) ==
    IF cfg.persona = None \/ Val(cfg.persona) = <<>> THEN d
    ELSE MergePersona(Val(cfg.persona), d)

LoadData ==
    /\ pc = "Loading"
    /\ trace' = Append(trace, "load")
    /\ \E ret \in ProviderReturns, o1 \in PlainOutcomes, o2 \in PlainOutcomes :
         IF ~LoadAgentDataOk(ret)
         THEN \* the reload is caught; load_persona_data then reads None.get
              /\ agent_data' = None /\ data' = None
              /\ loadFault' = TRUE
              /\ custom' = custom
              /\ Abort("load_persona_data", logged \o <<"error">>)
         ELSE /\ agent_data' = ret
              /\ data' = Some(LoadPersonaData(Val(ret), LoadAgentDataMerge(ret, kwargs)))
              /\ loadFault' = FALSE
              /\ custom' = (custom \/ o1 # "default" \/ o2 # "default")
              /\ IF o1 = "fault" THEN Abort("load_agent_type_data", logged)
                 ELSE IF o2 = "fault" THEN Abort("load_additional_data", logged)
                 ELSE /\ pc' = After("load")
                      /\ UNCHANGED <<returned, faultAt, logged>>
    /\ UNCHANGED <<functionsOk, storage, prompt, result, output, kwargs,
                   llmCall, llmOut, llmFault, saved, saveFault>>
    /\ UNCHANGED <<logVars, thrVars, callVars>>

(***************************************************************************)
(* Stage 2: process_data                                                   *)
(***************************************************************************)
ProcessData ==
    /\ pc = "Processing"
    /\ trace' = Append(trace, "process")
    /\ \E o \in PlainOutcomes :
         /\ custom' = (custom \/ o # "default")
         /\ IF o = "fault" THEN Abort("process_data", logged)
            ELSE /\ pc' = After("process")
                 /\ UNCHANGED <<returned, faultAt, logged>>
    /\ UNCHANGED <<functionsOk, storage, agent_data, data, prompt, result, output,
                   kwargs, loadFault, llmCall, llmOut, llmFault, saved, saveFault>>
    /\ UNCHANGED <<logVars, thrVars, callVars>>

(***************************************************************************)
(* Stage 3: generate_prompt                                                *)
(***************************************************************************)
\* a slip: the handler keeps the prompts rendered before the fault
RECURSIVE RenderAllKeepingPrefix(_)
RenderAllKeepingPrefix(ts) ==
    IF ts = <<>> THEN Some(<<>>)
    ELSE LET t == Head(ts) IN
         IF HandleFaults(t) THEN Some(<<>>)
         ELSE IF HandleSkips(t) THEN RenderAllKeepingPrefix(Tail(ts))
         ELSE IF RenderFaults(t) THEN Some(<<>>)
         ELSE Some(<<RenderText(t)>> \o Val(RenderAllKeepingPrefix(Tail(ts))))

\* the loop over the templates: None when a renderer call raises
RECURSIVE RenderAll(_)
RenderAll(ts) ==
    IF ts = <<>> THEN Some(<<>>)
    ELSE LET t == Head(ts) IN
         IF HandleFaults(t) THEN None
         ELSE IF HandleSkips(t) THEN RenderAll(Tail(ts))
         ELSE IF RenderFaults(t) THEN None
         ELSE LET rest == RenderAll(Tail(ts)) IN
              IF rest = None THEN None ELSE Some(<<RenderText(t)>> \o Val(rest))

\* the value generate_prompt leaves in self.prompt
RenderedPrompts(d) ==
    IF d = None THEN None
    ELSE IF "prompts" \notin DOMAIN Val(d) THEN None
    ELSE IF Val(d)["prompts"].t # "dict" THEN None
    ELSE RenderAll(Val(d)["prompts"].v)

GeneratePrompt ==
    /\ pc = "Rendering"
    /\ trace' = Append(trace, "render")
    /\ prompt' = RenderedPrompts(data)
    /\ logged' = IF prompt' = None THEN Append(logged, "error") ELSE logged
    /\ pc' = After("render")
    /\ UNCHANGED <<functionsOk, storage, agent_data, data, result, output, kwargs,
                   returned, loadFault, llmCall, llmOut, llmFault, saved, saveFault,
                   faultAt, custom>>
    /\ UNCHANGED <<logVars, thrVars, callVars>>

(***************************************************************************)
(* Stage 4: run_llm                                                        *)
(***************************************************************************)
\* a slip: only the leading whitespace is removed
TrimLeftOnly(t) == LStrip(t)

\* the text the client returned, as run_llm stores it
TrimResult(t) == Strip(t)

\* a slip: the handler leaves the result of the earlier run in place
StaleResult == result

\* the handler of run_llm: self.result = None
LLMFaultResult == None

\* the arguments of model.generate_text(self.prompt, **params)
LLMArgs(cfg, pr) ==
    [model |-> Val(cfg.llm), prompt |-> pr,
     params |-> Val(cfg.params), agent_name |-> AgentName]

RunLLM ==
    /\ pc = "Inferring"
    /\ trace' = Append(trace, "infer")
    /\ \/ \* agent_data['llm'] is missing: KeyError, caught
          /\ Val(agent_data).llm = None
          /\ llmCall' = None /\ llmOut' = None
          /\ llmFault' = TRUE
          /\ result' = LLMFaultResult
          /\ logged' = Append(logged, "error")
       \/ \* the client faults: caught
          /\ Val(agent_data).llm # None
          /\ llmCall' = Some(LLMArgs(Val(agent_data), prompt))
          /\ llmOut' = None
          /\ llmFault' = TRUE
          /\ result' = LLMFaultResult
          /\ logged' = Append(logged, "error")
       \/ \* the client returns a text
          /\ Val(agent_data).llm # None
          /\ \E t \in Texts :
                /\ llmOut' = Some(t)
                /\ result' = Some(TrimResult(t))
          /\ llmCall' = Some(LLMArgs(Val(agent_data), prompt))
          /\ llmFault' = FALSE
          /\ logged' = logged
    /\ pc' = After("infer")
    /\ UNCHANGED <<functionsOk, storage, agent_data, data, prompt, output, kwargs,
                   returned, loadFault, saved, saveFault, faultAt, custom>>
    /\ UNCHANGED <<logVars, thrVars, callVars>>

(***************************************************************************)
(* Stage 5: parse_result                                                   *)
(***************************************************************************)
ParseResult ==
    /\ pc = "Parsing"
    /\ trace' = Append(trace, "parse")
    /\ \E o \in FullOutcomes :
         /\ custom' = (custom \/ o # "default")
         /\ IF o = "fault"
            THEN /\ Abort("parse_result", logged)
                 /\ result' = result
            ELSE /\ pc' = After("parse")
                 /\ result' = IF o = "custom" THEN Some(ParsedText) ELSE result
                 /\ UNCHANGED <<returned, faultAt, logged>>
    /\ UNCHANGED <<functionsOk, storage, agent_data, data, prompt, output, kwargs,
                   loadFault, llmCall, llmOut, llmFault, saved, saveFault>>
    /\ UNCHANGED <<logVars, thrVars, callVars>>

(***************************************************************************)
(* Stage 6: save_result                                                    *)
(***************************************************************************)
\* the call storage.save_memory(collection_name='Results', data=[self.result])
SaveCall(st, res) == [handle |-> Val(st), collection |-> "Results", data |-> <<res>>]

\* a slip: save_result without its try/except, the fault reaches run()'s handler
SaveResultUncaught ==
    /\ pc = "Persisting"
    /\ trace' = Append(trace, "persist")
    /\ \/ /\ storage = None
          /\ saved' = saved
          /\ saveFault' = TRUE
       \/ /\ storage # None
          /\ saved' = Append(saved, SaveCall(storage, result))
          /\ saveFault' \in BOOLEAN
    /\ IF saveFault' THEN Abort("save_result", logged)
       ELSE /\ pc' = After("persist")
            /\ UNCHANGED <<returned, faultAt, logged>>
    /\ UNCHANGED <<functionsOk, storage, agent_data, data, prompt, result, output,
                   kwargs, loadFault, llmCall, llmOut, llmFault, custom>>
    /\ UNCHANGED <<logVars, thrVars, callVars>>

SaveResult ==
    /\ pc = "Persisting"
    /\ trace' = Append(trace, "persist")
    /\ \/ \* self.storage was never bound: AttributeError, caught
          /\ storage = None
          /\ saved' = saved
          /\ saveFault' = TRUE
       \/ \* the backend takes the record, or faults: caught
          /\ storage # None
          /\ saved' = Append(saved, SaveCall(storage, result))
          /\ saveFault' \in BOOLEAN
    /\ logged' = IF saveFault' THEN Append(logged, "error") ELSE logged
    /\ pc' = After("persist")
    /\ UNCHANGED <<functionsOk, storage, agent_data, data, prompt, result, output,
                   kwargs, returned, loadFault, llmCall, llmOut, llmFault, faultAt,
                   custom>>
    /\ UNCHANGED <<logVars, thrVars, callVars>>

(***************************************************************************)
(* Stage 7: build_output, and run()'s return                               *)
(***************************************************************************)
\* the default build_output
BuiltOutput(res) == res

BuildOutput ==
    /\ pc = "Building"
    /\ trace' = Append(trace, "build")
    /\ \E o \in FullOutcomes :
         /\ custom' = (custom \/ o # "default")
         /\ IF o = "fault"
            THEN /\ Abort("build_output", logged)
                 /\ output' = output
            ELSE /\ output' = IF o = "custom" THEN Some(CustomOut) ELSE BuiltOutput(result)
                 /\ pc' = After("build")
                 /\ returned' = output'
                 /\ UNCHANGED <<faultAt, logged>>
    /\ UNCHANGED <<functionsOk, storage, agent_data, data, prompt, result, kwargs,
                   loadFault, llmCall, llmOut, llmFault, saved, saveFault>>
    /\ UNCHANGED <<logVars, thrVars, callVars>>

(***************************************************************************)
(* The Agent specification                                                 *)
(***************************************************************************)
LogIdle ==
    /\ enabled = TRUE /\ files = <<>> /\ handlers = <<>>
    /\ file_handlers = <<>> /\ console_handlers = <<>>
    /\ loggerLevel = <<>> /\ attached = <<>> /\ made = <<>>
    /\ out = <<>> /\ rootOut = <<>> /\ raised = "none" /\ lastOp = <<>>
    /\ lastSet = None /\ calls = <<>>

ThreadsIdle == tpc = <<>> /\ tchan = <<>> /\ tfh = <<>>

CallsIdle == rpc = <<>> /\ rtext = <<>> /\ rret = <<>>

Init == AgentInit /\ LogIdle /\ ThreadsIdle /\ CallsIdle

Next ==
    \/ \E kw \in KwargChoices : Run(kw)
    \/ LoadData
    \/ ProcessData
    \/ GeneratePrompt
    \/ RunLLM
    \/ ParseResult
    \/ SaveResult
    \/ BuildOutput

Spec == Init /\ [][Next]_vars

\* run() is synchronous: a stage that has been entered returns or faults
Step == LoadData \/ ProcessData \/ GeneratePrompt \/ RunLLM \/ ParseResult
        \/ SaveResult \/ BuildOutput

FairSpec == Spec /\ WF_vars(Step)

(***************************************************************************)
(* generate_prompt and run_llm on every list of prompt templates: the      *)
(* specification starts where run() has loaded a configuration with the    *)
(* templates ts and is about to call generate_prompt.                      *)
(***************************************************************************)
MaxTemplates == 3
TemplateSeqs == UNION {[1..n -> TemplateKinds] : n \in 0..MaxTemplates}

\* the prompt list an earlier run left in self.prompt
EarlierPrompts == {None, Some(<<"A">>)}

RenderReady ==
    /\ pc = "Rendering"
    /\ functionsOk = TRUE
    /\ \E ts \in TemplateSeqs, m \in {None, Some("M1")} :
          LET cfg == [BaseConfig EXCEPT !.prompts = Some(ts), !.llm = m] IN
          /\ agent_data = Some(cfg)
          /\ data = Some(LoadPersonaData(cfg, LoadAgentDataMerge(Some(cfg), <<>>)))
          /\ storage = cfg.storage
    /\ prompt \in EarlierPrompts
    /\ result = None /\ output = None
    /\ kwargs = <<>> /\ returned = None /\ trace = <<"load", "process">>
    /\ loadFault = FALSE
    /\ llmCall = None /\ llmOut = None /\ llmFault = FALSE
    /\ saved = <<>> /\ saveFault = FALSE /\ faultAt = "none" /\ custom = FALSE
    /\ logged = <<"info">>

InitRender == RenderReady /\ LogIdle /\ ThreadsIdle /\ CallsIdle

NextRender == GeneratePrompt \/ RunLLM

SpecRender == InitRender /\ [][NextRender]_vars

(***************************************************************************)
(* Overlapping run() calls on one instance of the base Agent class (its    *)
(* override points are the default bodies).  The calls share the instance  *)
(* attributes; a call can be preempted between two stages and between      *)
(* build_output and `return self.output`.  A stage is one step here: the   *)
(* program has finer interleavings too, and every behaviour of this        *)
(* specification is one of the program's.                                  *)
(***************************************************************************)
NumRuns == 2
Calls == 1..NumRuns

\* the texts the client returns in this specification
ShortTexts == {t \in Texts : Len(t) <= 1}

CallGoto(c, label) == rpc' = [rpc EXCEPT ![c] = label]

\* what a stage of one call leaves alone besides the instance attributes
CallFrame ==
    /\ UNCHANGED <<pc, functionsOk, storage, kwargs, returned, trace, loadFault,
                   llmCall, llmOut, llmFault, saveFault, faultAt, custom, logged>>
    /\ UNCHANGED <<logVars, thrVars>>

\* run(): entered
CallRun(c) ==
    /\ rpc[c] = "Idle"
    /\ CallGoto(c, "Loading")
    /\ UNCHANGED <<agent_data, data, prompt, result, output, saved, rtext, rret>>
    /\ CallFrame

\* load_data(): the provider returns a complete configuration
CallLoadData(c) ==
    /\ rpc[c] = "Loading"
    /\ LoadAgentDataOk(Some(BaseConfig))
    /\ agent_data' = Some(BaseConfig)
    /\ data' = Some(LoadPersonaData(BaseConfig, LoadAgentDataMerge(Some(BaseConfig), <<>>)))
    /\ CallGoto(c, After("load"))
    /\ UNCHANGED <<prompt, result, output, saved, rtext, rret>>
    /\ CallFrame

CallProcessData(c) ==
    /\ rpc[c] = "Processing"
    /\ CallGoto(c, After("process"))
    /\ UNCHANGED <<agent_data, data, prompt, result, output, saved, rtext, rret>>
    /\ CallFrame

CallGeneratePrompt(c) ==
    /\ rpc[c] = "Rendering"
    /\ prompt' = RenderedPrompts(data)
    /\ CallGoto(c, After("render"))
    /\ UNCHANGED <<agent_data, data, result, output, saved, rtext, rret>>
    /\ CallFrame

CallRunLLM(c) ==
    /\ rpc[c] = "Inferring"
    /\ \/ \* the client faults: caught
          /\ rtext' = [rtext EXCEPT ![c] = None]
          /\ result' = LLMFaultResult
       \/ \* the client returns a text
          \E t \in ShortTexts :
             /\ rtext' = [rtext EXCEPT ![c] = Some(t)]
             /\ result' = Some(TrimResult(t))
    /\ CallGoto(c, After("infer"))
    /\ UNCHANGED <<agent_data, data, prompt, output, saved, rret>>
    /\ CallFrame

CallParseResult(c) ==
    /\ rpc[c] = "Parsing"
    /\ CallGoto(c, After("parse"))
    /\ UNCHANGED <<agent_data, data, prompt, result, output, saved, rtext, rret>>
    /\ CallFrame

CallSaveResult(c) ==
    /\ rpc[c] = "Persisting"
    /\ saved' = IF storage = None THEN saved ELSE Append(saved, SaveCall(storage, result))
    /\ CallGoto(c, After("persist"))
    /\ UNCHANGED <<agent_data, data, prompt, result, output, rtext, rret>>
    /\ CallFrame

CallBuildOutput(c) ==
    /\ rpc[c] = "Building"
    /\ output' = BuiltOutput(result)
    /\ CallGoto(c, "Returning")
    /\ UNCHANGED <<agent_data, data, prompt, result, saved, rtext, rret>>
    /\ CallFrame

\* return self.output
CallReturn(c) ==
    /\ rpc[c] = "Returning"
    /\ rret' = [rret EXCEPT ![c] = output]
    /\ CallGoto(c, After("build"))
    /\ UNCHANGED <<agent_data, data, prompt, result, output, saved, rtext>>
    /\ CallFrame

\* an Agent constructed with a complete configuration, no call of run() yet
CallsInit ==
    /\ rpc = [c \in Calls |-> "Idle"]
    /\ rtext = [c \in Calls |-> None]
    /\ rret = [c \in Calls |-> None]

InitRuns ==
    /\ AgentInit /\ functionsOk /\ agent_data = Some(BaseConfig)
    /\ LogIdle /\ ThreadsIdle /\ CallsInit

NextRuns ==
    \E c \in Calls :
        \/ CallRun(c)
        \/ CallLoadData(c)
        \/ CallProcessData(c)
        \/ CallGeneratePrompt(c)
        \/ CallRunLLM(c)
        \/ CallParseResult(c)
        \/ CallSaveResult(c)
        \/ CallBuildOutput(c)
        \/ CallReturn(c)

SpecRuns == InitRuns /\ [][NextRuns]_vars

(***************************************************************************)
(* Properties of the Agent pipeline                                        *)
(***************************************************************************)
Ended == pc \in {"Done", "Aborted"}

Range(f) == {f[i] : i \in DOMAIN f}

IsPrefix(a, b) == Len(a) <= Len(b) /\ SubSeq(b, 1, Len(a)) = a

OverridePoints == {"load_agent_type_data", "load_additional_data", "process_data",
                   "parse_result", "build_output"}

\* the stage an override point is called in
StageOf(m) ==
    CASE m \in {"load_agent_type_data", "load_additional_data"} -> 1
      [] m = "process_data" -> 2
      [] m = "parse_result" -> 5
      [] m = "build_output" -> 7

\* C1: a run whose configuration reload succeeded, whose client returned a
\* text t and in which every override point kept its default body returns t
\* without its leading and trailing whitespace, whatever the instance held
\* from earlier runs.
C1_RunReturnsTrimmedText ==
    (Ended /\ ~loadFault /\ llmOut # None /\ ~custom)
        => (pc = "Done" /\ returned = Some(Strip(Val(llmOut))))

\* a finished default run whose client text had trailing whitespace
C1_Witness ==
    /\ pc = "Done" /\ ~loadFault /\ ~custom
    /\ llmOut = Some(<<"a", " ">>)
    /\ returned = Some(<<"a">>)

\* C2 as stated: after a fault in run_llm (client fault or missing model
\* handle) run() returns None, save_result has run, and exactly one call,
\* with the single record None under "Results", reached the storage backend.
C2_AsStated ==
    (Ended /\ llmFault)
        => /\ returned = None
           /\ "persist" \in Range(trace)
           /\ Len(saved) = 1
           /\ saved[1].collection = "Results"
           /\ saved[1].data = <<None>>

\* C2 amended: the same, for runs in which parse_result and build_output keep
\* their default bodies; the record reaches a backend when self.storage is
\* bound, and nothing is passed when it is not.
C2_LLMFaultStillPersists ==
    (Ended /\ llmFault /\ ~custom)
        => /\ pc = "Done"
           /\ returned = None
           /\ trace = Stages
           /\ storage # None => saved = <<SaveCall(storage, None)>>
           /\ storage = None => saved = <<>>

\* a finished run whose client call faulted and whose None record was stored
C2_Witness ==
    /\ pc = "Done" /\ llmFault /\ ~custom /\ llmCall # None
    /\ returned = None
    /\ Len(saved) = 1 /\ saved[1].data = <<None>> /\ saved[1].collection = "Results"

\* C3 as stated: when save_result caught a fault (the backend faulted or no
\* storage handle is bound) in a run whose client returned a text t,
\* build_output has run and run() returns t trimmed.
C3_AsStated ==
    (Ended /\ saveFault /\ llmOut # None)
        => /\ "build" \in Range(trace)
           /\ returned = Some(Strip(Val(llmOut)))

\* C3 amended: the same, for runs in which parse_result and build_output keep
\* their default bodies.
C3_SaveFaultInvisible ==
    (Ended /\ saveFault /\ llmOut # None /\ ~custom)
        => /\ pc = "Done"
           /\ trace = Stages
           /\ returned = Some(Strip(Val(llmOut)))

\* a finished run whose backend faulted and that still returned the text
C3_Witness ==
    /\ pc = "Done" /\ saveFault /\ ~custom /\ storage # None /\ Len(saved) = 1
    /\ llmOut = Some(<<" ", "a">>)
    /\ returned = Some(<<"a">>)

\* C4: a fault of an override point ends the run in Aborted with None
\* returned, and the stages started are exactly those up to the one the
\* faulting method belongs to: no client call after a process_data fault, no
\* storage call after a parse_result fault.
C4_OverrideFaultAborts ==
    (faultAt \in OverridePoints)
        => /\ pc = "Aborted"
           /\ returned = None
           /\ trace = SubSeq(Stages, 1, StageOf(faultAt))
           /\ faultAt \in {"load_agent_type_data", "load_additional_data",
                           "process_data"} => llmCall = None /\ saved = <<>>
           /\ faultAt = "parse_result" => saved = <<>>
           /\ logged[Len(logged)] = "error"

\* a run aborted by parse_result on an instance whose earlier run left an output
C4_Witness ==
    /\ pc = "Aborted" /\ faultAt = "parse_result"
    /\ output # None /\ llmOut # None
    /\ returned = None

\* C5 as stated: after a faulting configuration reload the working data is
\* None and the run goes on to process_data and the later stages.
C5_ReloadFaultContinues ==
    (Ended /\ loadFault)
        => /\ data = None
           /\ "process" \in Range(trace)
           /\ faultAt # "load_persona_data"

\* C6: the stages of a run start in the fixed order, each at most once; the
\* position of run() determines the stages started so far; Done is reached
\* exactly with all seven started and no fault, Aborted exactly with a fault;
\* and a run that has started ends in Done or Aborted.
StartedBefore ==
    [Loading |-> 0, Processing |-> 1, Rendering |-> 2, Inferring |-> 3,
     Parsing |-> 4, Persisting |-> 5, Building |-> 6]

StageOrder ==
    /\ IsPrefix(trace, Stages)
    /\ pc = "Idle" => trace = <<>>
    /\ pc \in DOMAIN StartedBefore
          => Len(trace) = StartedBefore[pc] /\ faultAt = "none"
    /\ pc = "Done" => trace = Stages /\ faultAt = "none"
    /\ pc = "Aborted" => trace # <<>> /\ faultAt # "none"

C6_StagesInOrder ==
    /\ []StageOrder
    /\ (pc = "Loading") ~> Ended

\* a run that went through all seven stages, and one cut short
C6_Witness == pc = "Done" /\ trace = Stages /\ llmFault /\ saveFault

\* C13 as stated: under every interleaving of overlapping run() calls on one
\* instance, a call whose client returned the text t returns t trimmed, and
\* a call whose client faulted returns None: never the result of another call.
C13_RunsIsolated ==
    \A c \in DOMAIN rpc :
        rpc[c] = "Done" =>
            rret[c] = IF rtext[c] = None THEN None ELSE Some(Strip(Val(rtext[c])))

\* the templates of the loaded configuration, in declaration order
Templates == Val(data)["prompts"].v

\* a renderer call raises while the templates are processed
RendererFaulted ==
    \E k \in DOMAIN Templates :
        \/ HandleFaults(Templates[k])
        \/ ~HandleSkips(Templates[k]) /\ RenderFaults(Templates[k])

\* the non-empty rendered texts, in declaration order
NonEmptyRendered ==
    LET Kept(t) == ~HandleSkips(t) /\ RenderText(t) # ""
        kept == SelectSeq(Templates, Kept)
    IN [i \in DOMAIN kept |-> RenderText(kept[i])]

\* C14 as stated: after a generate_prompt in which no renderer call raised,
\* self.prompt is the list of the rendered texts of the templates that
\* resolve to a non-empty text, in declaration order; no element is empty.
C14_OnlyNonEmptyPrompts ==
    (pc \in {"Inferring", "Parsing"} /\ data # None /\ ~RendererFaulted) =>
        /\ prompt # None
        /\ Val(prompt) = NonEmptyRendered
        /\ \A i \in DOMAIN Val(prompt) : Val(prompt)[i] # ""

\* C15: when a renderer call raised on a template of the list, self.prompt is
\* None after generate_prompt (neither the prompts rendered before the fault
\* nor the list of an earlier run), the run is not aborted, run_llm is the
\* next stage, and the client, when run_llm calls it, is called with None.
C15_RenderFaultDiscardsAll ==
    (pc \in {"Inferring", "Parsing"} /\ data # None /\ RendererFaulted) =>
        /\ prompt = None
        /\ faultAt = "none"
        /\ IsPrefix(<<"load", "process", "render">>, trace)
        /\ pc = "Parsing" =>
              /\ trace = <<"load", "process", "render", "infer">>
              /\ llmCall # None => Val(llmCall).prompt = None
              /\ Val(agent_data).llm # None => llmCall # None

\* the renderer raised on the second template of three, one prompt had been
\* rendered before it, and the client was called with None
C15_Witness ==
    /\ pc = "Parsing" /\ data # None
    /\ Templates = <<"A", "rfault", "A">>
    /\ prompt = None
    /\ llmCall # None /\ Val(llmCall).prompt = None

\* the positions of run(): before a call, in a stage, or returned
Positions == {"Idle"} \cup DOMAIN StartedBefore \cup {"Done", "Aborted"}

\* C16: whatever the provider, the renderer, the client, the storage backend
\* and the override points raise, run() is left only by a return: with None
\* after a fault that reached its handler, with self.output otherwise.
C16_RunNeverPropagates ==
    /\ pc \in Positions
    /\ faultAt # "none" => pc = "Aborted" /\ returned = None
    /\ (loadFault \/ llmFault \/ saveFault) /\ Ended =>
          \/ pc = "Aborted" /\ returned = None
          \/ pc = "Done" /\ returned = output
    /\ pc = "Done" => returned = output
    /\ pc = "Aborted" => returned = None

\* a run in which the renderer, the client, the storage backend and
\* build_output all raised, ended by a return of None
C16_Witness ==
    /\ pc = "Aborted" /\ returned = None
    /\ prompt = None /\ llmFault /\ saveFault /\ faultAt = "build_output"
    /\ llmCall # None /\ saved # <<>>

\* C18 as stated: on an instance whose construction bound a storage handle, a
\* run whose reload succeeded calls the model handle of the configuration it
\* loaded, with the parameters of that configuration, and its save_result
\* passes the record to the storage handle of that configuration.
C18_RunUsesLoadedConfig ==
    (storage # None /\ ~loadFault /\ agent_data # None /\ "load" \in Range(trace)) =>
        LET cfg == Val(agent_data) IN
        /\ llmCall # None =>
              /\ Val(llmCall).model = Val(cfg.llm)
              /\ Val(llmCall).params = Val(cfg.params)
        /\ ("persist" \in Range(trace) /\ cfg.storage # None) =>
              /\ Len(saved) = 1
              /\ saved[1].handle = Val(cfg.storage)

\* the persona entries of the loaded configuration, <<>> without a persona
PersonaEntries == IF Val(agent_data).persona = None THEN <<>>
                  ELSE Val(Val(agent_data).persona)

LoweredKeys == {Lower(PersonaEntries[i].k) : i \in DOMAIN PersonaEntries}

\* the load stage of this run has succeeded
Loaded == pc \in (DOMAIN StartedBefore \ {"Loading"}) \cup {"Done"}

\* C20 as stated: after a load stage that succeeded the working data has the
\* keys params and prompts, maps every key of the kwargs that no persona key
\* shadows to its kwargs value, and maps lower(K) to persona[K] for every
\* persona key K.
C20_AsStated ==
    Loaded =>
        LET d == Val(data) IN
        /\ {"params", "prompts"} \subseteq DOMAIN d
        /\ \A k \in DOMAIN kwargs : k \notin LoweredKeys => d[k] = kwargs[k]
        /\ \A i \in DOMAIN PersonaEntries :
              d[Lower(PersonaEntries[i].k)] = PersonaEntries[i].v

\* C20 amended: the same, where of several persona keys with one lower-case
\* form the last one in the iteration order of the persona gives the value;
\* the working data has no other keys, and params and prompts hold the
\* loaded configuration's unless a kwargs or persona key shadows them.
C20_LoadedData ==
    Loaded =>
        LET d == Val(data)
            cfg == Val(agent_data)
            Last(j) == CHOOSE i \in DOMAIN PersonaEntries :
                          /\ Lower(PersonaEntries[i].k) = j
                          /\ \A m \in DOMAIN PersonaEntries :
                                Lower(PersonaEntries[m].k) = j => m <= i
        IN /\ DOMAIN d = {"params", "prompts"} \cup DOMAIN kwargs \cup LoweredKeys
           /\ \A j \in DOMAIN d :
                 d[j] = IF j \in LoweredKeys THEN PersonaEntries[Last(j)].v
                        ELSE IF j \in DOMAIN kwargs THEN kwargs[j]
                        ELSE IF j = "params" THEN Dict(<<Val(cfg.params)>>)
                        ELSE Dict(Val(cfg.prompts))

\* the persona {"Name": "Bot"} merged over the kwargs name="x"
C20_Witness ==
    /\ pc = "Processing"
    /\ kwargs = ("name" :> Str("x"))
    /\ PersonaEntries = <<Entry("Name", "Bot")>>
    /\ Val(data)["name"] = Str("Bot")

(***************************************************************************)
(* Logger.py: levels                                                       *)
(***************************************************************************)
NOTSET == 0
DEBUG == 10
INFO == 20
WARNING == 30
ERROR == 40
CRITICAL == 50
\* logging.CRITICAL + 1, the level of a channel when logging is disabled
DISABLED == CRITICAL + 1

LevelNames == {"debug", "info", "warning", "error", "critical", "ERROR", "verbose"}
ValidNames == {"debug", "info", "warning", "error", "critical"}

\* str.lower() on the level names that occur
LowerLevel(l) == IF l = "ERROR" THEN "error" ELSE l

\* BaseLogger._get_level_code
GetLevelCode(l) ==
    CASE LowerLevel(l) = "debug" -> DEBUG
      [] LowerLevel(l) = "info" -> INFO
      [] LowerLevel(l) = "warning" -> WARNING
      [] LowerLevel(l) = "error" -> ERROR
      [] LowerLevel(l) = "critical" -> CRITICAL
      [] OTHER -> INFO

(***************************************************************************)
(* Logger.py: configuration and names                                      *)
(***************************************************************************)
\* the keys of Logging.Files, in the order of the mapping
ChannelOrder == <<"AgentForge", "Results">>
Channels == Range(ChannelOrder)
\* Logging.Files: the level configured for each channel
ConfigChoices == {[n \in Channels |-> IF n = a THEN "debug" ELSE "error"] : a \in Channels}

\* f'{log_name}.log'
FileOf(n) == IF n = "AgentForge" THEN "AgentForge.log" ELSE "Results.log"

\* the files a BaseLogger of name n is constructed with
FilesFor(n) == {FileOf(n)}

(***************************************************************************)
(* Logger.py: the registry as one value, and the steps that change it      *)
(***************************************************************************)
Registry ==
    [handlers |-> handlers, file_handlers |-> file_handlers,
     console_handlers |-> console_handlers, loggerLevel |-> loggerLevel,
     attached |-> attached, made |-> made]

SetRegistry(r) ==
    /\ handlers' = r.handlers
    /\ file_handlers' = r.file_handlers
    /\ console_handlers' = r.console_handlers
    /\ loggerLevel' = r.loggerLevel
    /\ attached' = r.attached
    /\ made' = r.made

\* logging.Logger.addHandler: a handler object is attached once
AddHandler(att, h) == IF h \in Range(att) THEN att ELSE Append(att, h)

\* logging.FileHandler(path) / logging.StreamHandler(), then setLevel(level)
NewHandler(kind, key, level) == [kind |-> kind, key |-> key, level |-> level]

\* a slip: no lookup in file_handlers, a new handler on every construction
SetupFileHandlerNoLookup(r, n, f, level) ==
    LET h == Len(r.handlers) + 1 IN
    [r EXCEPT !.handlers = Append(@, NewHandler("file", f, level)),
              !.attached[n] = AddHandler(@, h),
              !.file_handlers = Put(@, f, h)]

\* BaseLogger._setup_file_handler
SetupFileHandler(r, n, f, level) ==
    IF f \in DOMAIN r.file_handlers
    THEN [r EXCEPT !.attached[n] = AddHandler(@, r.file_handlers[f])]
    ELSE LET h == Len(r.handlers) + 1 IN
         [r EXCEPT !.handlers = Append(@, NewHandler("file", f, level)),
                   !.attached[n] = AddHandler(@, h),
                   !.file_handlers = Put(@, f, h)]

\* BaseLogger._setup_console_handler
SetupConsoleHandler(r, n, level) ==
    IF n \in DOMAIN r.console_handlers
    THEN [r EXCEPT !.attached[n] = AddHandler(@, r.console_handlers[n])]
    ELSE LET h == Len(r.handlers) + 1 IN
         [r EXCEPT !.handlers = Append(@, NewHandler("console", n, level)),
                   !.attached[n] = AddHandler(@, h),
                   !.console_handlers = Put(@, n, h)]

\* BaseLogger.__init__(name=n, log_file=f, log_level=l)
BaseLoggerInit(r, n, f, l) ==
    LET level == GetLevelCode(l) IN
    IF enabled
    THEN [SetupConsoleHandler(SetupFileHandler(r, n, f, level), n, level)
             EXCEPT !.loggerLevel[n] = level, !.made[n] = TRUE]
    ELSE [r EXCEPT !.loggerLevel[n] = DISABLED, !.made[n] = TRUE]

\* Logger.__init__: one BaseLogger per entry of Logging.Files
RECURSIVE LoggerInit(_, _)
LoggerInit(r, names) ==
    IF names = <<>> THEN r
    ELSE LoggerInit(BaseLoggerInit(r, Head(names), FileOf(Head(names)), files[Head(names)]),
                    Tail(names))

\* a slip: the handlers keep their thresholds
SetLevelLoggerOnly(r, n, l) == [r EXCEPT !.loggerLevel[n] = GetLevelCode(l)]

\* BaseLogger.set_level
SetLevelOn(r, n, l) ==
    LET level == GetLevelCode(l) IN
    [r EXCEPT !.loggerLevel[n] = level,
              !.handlers = [h \in DOMAIN r.handlers |->
                               IF h \in Range(r.attached[n])
                               THEN [r.handlers[h] EXCEPT !.level = level]
                               ELSE r.handlers[h]]]

\* a slip: the error branch without logger.exception()
LogRecordsNoContext(l) ==
    LET code == GetLevelCode(l) IN
    IF code = CRITICAL
    THEN <<[kind |-> "msg", lvl |-> CRITICAL], [kind |-> "exc", lvl |-> ERROR]>>
    ELSE <<[kind |-> "msg", lvl |-> code]>>

\* the records one log_msg call hands to the logger, in order:
\* logger.exception() logs at ERROR
LogRecords(l) ==
    LET code == GetLevelCode(l) IN
    IF code = ERROR THEN <<[kind |-> "msg", lvl |-> ERROR], [kind |-> "exc", lvl |-> ERROR]>>
    ELSE IF code = CRITICAL
         THEN <<[kind |-> "msg", lvl |-> CRITICAL], [kind |-> "exc", lvl |-> ERROR]>>
    ELSE <<[kind |-> "msg", lvl |-> code]>>

\* how log_msg can end: the bare raise of the critical branch re-raises the
\* fault in flight, and is a RuntimeError when the caller handles none
LogRaises(l) ==
    IF GetLevelCode(l) = CRITICAL THEN {"inflight", "RuntimeError"} ELSE {"none"}

\* logging.Logger.isEnabledFor: the threshold of the logger, the root
\* logger's WARNING while the logger has none
Admits(r, n, rec) ==
    rec.lvl >= (IF r.loggerLevel[n] = NOTSET THEN WARNING ELSE r.loggerLevel[n])

\* logging.Logger.callHandlers: what reaches handler h of logger n
Written(r, n, h, recs) ==
    LET pass(rec) == Admits(r, n, rec) /\ h \in Range(r.attached[n])
                     /\ rec.lvl >= r.handlers[h].level
    IN SelectSeq(recs, pass)

\* propagation to the root logger, whose handler (logging.basicConfig) has no threshold
WrittenRoot(r, n, recs) ==
    LET pass(rec) == Admits(r, n, rec) IN SelectSeq(recs, pass)

(***************************************************************************)
(* Logger.py: the operations                                               *)
(***************************************************************************)
Op(op, n, l) == [op |-> op, chan |-> n, level |-> l]

\* a message text, and one call log_msg(msg, l) on the BaseLogger of name n
Msg == <<"m">>
Call(n, msg, l) == [chan |-> n, msg |-> msg, level |-> l]

Quiet ==
    /\ out' = [h \in DOMAIN handlers' |-> <<>>]
    /\ rootOut' = <<>>
    /\ raised' = "none"
    /\ calls' = <<>>

\* BaseLogger(name=n, log_file=f, log_level=l)
NewBaseLogger(n, f, l) ==
    /\ SetRegistry(BaseLoggerInit(Registry, n, f, l))
    /\ Quiet
    /\ lastOp' = Op("new", "", "")
    /\ lastSet' = None
    /\ UNCHANGED <<enabled, files, agentVars, thrVars, callVars>>

\* Logger(name)
NewLogger ==
    /\ SetRegistry(LoggerInit(Registry, ChannelOrder))
    /\ Quiet
    /\ lastOp' = Op("new", "", "")
    /\ lastSet' = None
    /\ UNCHANGED <<enabled, files, agentVars, thrVars, callVars>>

\* BaseLogger.set_level(l) on a BaseLogger of name n
SetLevel(n, l) ==
    /\ made[n]
    /\ SetRegistry(SetLevelOn(Registry, n, l))
    /\ Quiet
    /\ lastOp' = Op("set_level", n, l)
    /\ lastSet' = Some([chan |-> n, level |-> l])
    /\ UNCHANGED <<enabled, files, agentVars, thrVars, callVars>>

\* BaseLogger.log_msg(msg, l) on a BaseLogger of name n
LogMsg(n, l) ==
    /\ made[n]
    /\ out' = [h \in DOMAIN handlers |-> Written(Registry, n, h, LogRecords(l))]
    /\ rootOut' = WrittenRoot(Registry, n, LogRecords(l))
    /\ raised' \in LogRaises(l)
    /\ calls' = <<Call(n, Msg, l)>>
    /\ lastOp' = Op("log_msg", n, l)
    /\ UNCHANGED <<enabled, files, handlers, file_handlers, console_handlers,
                   loggerLevel, attached, made, lastSet, agentVars, thrVars, callVars>>

AgentQuiet ==
    /\ pc = "Idle"
    /\ data = None /\ prompt = None /\ result = None /\ output = None
    /\ functionsOk = FALSE /\ agent_data = None /\ storage = None
    /\ kwargs = <<>> /\ returned = None /\ trace = <<>> /\ loadFault = FALSE
    /\ llmCall = None /\ llmOut = None /\ llmFault = FALSE
    /\ saved = <<>> /\ saveFault = FALSE /\ faultAt = "none" /\ custom = FALSE
    /\ logged = <<>>

\* the process before any Logger is constructed
LogInit ==
    /\ enabled \in BOOLEAN
    /\ files \in ConfigChoices
    /\ handlers = <<>>
    /\ file_handlers = <<>> /\ console_handlers = <<>>
    /\ loggerLevel = [n \in Channels |-> NOTSET]
    /\ attached = [n \in Channels |-> <<>>]
    /\ made = [n \in Channels |-> FALSE]
    /\ out = <<>> /\ rootOut = <<>> /\ raised = "none"
    /\ lastOp = Op("none", "", "")
    /\ lastSet = None /\ calls = <<>>

InitLog == AgentQuiet /\ LogInit /\ ThreadsIdle /\ CallsIdle

NextLog ==
    \/ \E n \in Channels, l \in LevelNames : \E f \in FilesFor(n) : NewBaseLogger(n, f, l)
    \/ NewLogger
    \/ \E n \in Channels, l \in LevelNames : SetLevel(n, l)
    \/ \E n \in Channels, l \in LevelNames : LogMsg(n, l)

SpecLog == InitLog /\ [][NextLog]_vars

(***************************************************************************)
(* Logger.py: Logger.log on a Logger object.  A Logger holds one BaseLogger *)
(* per entry of Logging.Files, so the specification starts in the state    *)
(* its construction leaves.                                                *)
(***************************************************************************)
\* self.caller_name
CallerName == AgentName

\* f'[{self.caller_name}] {msg}'
MsgWithCaller(c, m) == <<"[", c, "]", " ">> \o m

\* the logger_type arguments: a configured channel, 'all', and a name that is
\* not a key of Logging.Files
LogTargets == Channels \cup {"all", "ModelIO"}

\* the BaseLoggers a call of log reaches, in order: the loop over
\* self.loggers.values() ends with the first log_msg that raises
RECURSIVE Reached(_, _)
Reached(names, l) ==
    IF names = <<>> THEN <<>>
    ELSE IF LogRaises(l) # {"none"} THEN <<Head(names)>>
    ELSE <<Head(names)>> \o Reached(Tail(names), l)

\* what the log_msg calls on the channels `who` write to handler h
RECURSIVE WrittenBy(_, _, _, _)
WrittenBy(r, who, h, recs) ==
    IF who = <<>> THEN <<>>
    ELSE Written(r, Head(who), h, recs) \o WrittenBy(r, Tail(who), h, recs)

RECURSIVE WrittenRootBy(_, _, _)
WrittenRootBy(r, who, recs) ==
    IF who = <<>> THEN <<>>
    ELSE WrittenRoot(r, Head(who), recs) \o WrittenRootBy(r, Tail(who), recs)

\* Logger.log(msg, l, target)
Log(l, target) ==
    LET who == IF target = "all" THEN Reached(ChannelOrder, l)
               ELSE IF target \in Channels THEN <<target>>
               ELSE <<>>
    IN /\ \A n \in Channels : made[n]
       /\ calls' = [i \in DOMAIN who |-> Call(who[i], MsgWithCaller(CallerName, Msg), l)]
       /\ out' = [h \in DOMAIN handlers |-> WrittenBy(Registry, who, h, LogRecords(l))]
       /\ rootOut' = WrittenRootBy(Registry, who, LogRecords(l))
       /\ raised' \in IF target \notin Channels \cup {"all"} THEN {"KeyError"}
                      ELSE LogRaises(l)
       /\ lastOp' = Op("log", target, l)
       /\ UNCHANGED <<enabled, files, handlers, file_handlers, console_handlers,
                      loggerLevel, attached, made, lastSet, agentVars, thrVars, callVars>>

EmptyRegistry ==
    [handlers |-> <<>>, file_handlers |-> <<>>, console_handlers |-> <<>>,
     loggerLevel |-> [n \in Channels |-> NOTSET],
     attached |-> [n \in Channels |-> <<>>],
     made |-> [n \in Channels |-> FALSE]]

\* the process after its first Logger(name)
LoggerMade ==
    /\ enabled \in BOOLEAN
    /\ files \in ConfigChoices
    /\ LET r == LoggerInit(EmptyRegistry, ChannelOrder)
       IN /\ handlers = r.handlers
          /\ file_handlers = r.file_handlers
          /\ console_handlers = r.console_handlers
          /\ loggerLevel = r.loggerLevel
          /\ attached = r.attached
          /\ made = r.made
          /\ out = [h \in DOMAIN r.handlers |-> <<>>]
    /\ rootOut = <<>> /\ raised = "none"
    /\ lastOp = Op("new", "", "")
    /\ lastSet = None /\ calls = <<>>

InitMux == AgentQuiet /\ LoggerMade /\ ThreadsIdle /\ CallsIdle

NextMux ==
    \/ NewLogger
    \/ \E n \in Channels, l \in LevelNames : SetLevel(n, l)
    \/ \E l \in LevelNames, target \in LogTargets : Log(l, target)

SpecMux == InitMux /\ [][NextMux]_vars

(***************************************************************************)
(* Logger.py: Logger(name) constructed by several threads.  A thread can   *)
(* be preempted between the statements of the handler setup: after the     *)
(* lookup in the class-level dict, and between creating a handler and      *)
(* storing it.                                                             *)
(***************************************************************************)
NumThreads == 2
Threads == 1..NumThreads

ChanOf(t) == ChannelOrder[tchan[t]]

Goto(t, label) == tpc' = [tpc EXCEPT ![t] = label]

LogQuietUnchanged ==
    UNCHANGED <<enabled, files, out, rootOut, raised, lastOp, lastSet, calls, callVars>>

\* BaseLogger.__init__ up to the branch on logging_enabled
TStart(t) ==
    /\ tpc[t] = "start"
    /\ Goto(t, IF enabled THEN "fh_check" ELSE "set_level")
    /\ UNCHANGED <<handlers, file_handlers, console_handlers, loggerLevel, attached,
                   made, tchan, tfh>>
    /\ LogQuietUnchanged /\ UNCHANGED agentVars

\* _setup_file_handler: `if self.log_file in BaseLogger.file_handlers`
TFileCheck(t) ==
    /\ tpc[t] = "fh_check"
    /\ IF FileOf(ChanOf(t)) \in DOMAIN file_handlers
       THEN /\ attached' = [attached EXCEPT
                               ![ChanOf(t)] = AddHandler(@, file_handlers[FileOf(ChanOf(t))])]
            /\ Goto(t, "ch_check")
       ELSE /\ attached' = attached
            /\ Goto(t, "fh_create")
    /\ UNCHANGED <<handlers, file_handlers, console_handlers, loggerLevel, made,
                   tchan, tfh>>
    /\ LogQuietUnchanged /\ UNCHANGED agentVars

\* _setup_file_handler: FileHandler(...), setLevel, setFormatter, addHandler
TFileCreate(t) ==
    /\ tpc[t] = "fh_create"
    /\ handlers' = Append(handlers, NewHandler("file", FileOf(ChanOf(t)),
                                               GetLevelCode(files[ChanOf(t)])))
    /\ attached' = [attached EXCEPT ![ChanOf(t)] = AddHandler(@, Len(handlers) + 1)]
    /\ tfh' = [tfh EXCEPT ![t] = Len(handlers) + 1]
    /\ Goto(t, "fh_store")
    /\ UNCHANGED <<file_handlers, console_handlers, loggerLevel, made, tchan>>
    /\ LogQuietUnchanged /\ UNCHANGED agentVars

\* _setup_file_handler: BaseLogger.file_handlers[self.log_file] = fh
TFileStore(t) ==
    /\ tpc[t] = "fh_store"
    /\ file_handlers' = Put(file_handlers, FileOf(ChanOf(t)), tfh[t])
    /\ tfh' = [tfh EXCEPT ![t] = 0]
    /\ Goto(t, "ch_check")
    /\ UNCHANGED <<handlers, console_handlers, loggerLevel, attached, made, tchan>>
    /\ LogQuietUnchanged /\ UNCHANGED agentVars

\* _setup_console_handler: `if self.logger.name in BaseLogger.console_handlers`
TConsoleCheck(t) ==
    /\ tpc[t] = "ch_check"
    /\ IF ChanOf(t) \in DOMAIN console_handlers
       THEN /\ attached' = [attached EXCEPT
                               ![ChanOf(t)] = AddHandler(@, console_handlers[ChanOf(t)])]
            /\ Goto(t, "set_level")
       ELSE /\ attached' = attached
            /\ Goto(t, "ch_create")
    /\ UNCHANGED <<handlers, file_handlers, console_handlers, loggerLevel, made,
                   tchan, tfh>>
    /\ LogQuietUnchanged /\ UNCHANGED agentVars

\* _setup_console_handler: StreamHandler(), setLevel, setFormatter, addHandler
TConsoleCreate(t) ==
    /\ tpc[t] = "ch_create"
    /\ handlers' = Append(handlers, NewHandler("console", ChanOf(t),
                                               GetLevelCode(files[ChanOf(t)])))
    /\ attached' = [attached EXCEPT ![ChanOf(t)] = AddHandler(@, Len(handlers) + 1)]
    /\ tfh' = [tfh EXCEPT ![t] = Len(handlers) + 1]
    /\ Goto(t, "ch_store")
    /\ UNCHANGED <<file_handlers, console_handlers, loggerLevel, made, tchan>>
    /\ LogQuietUnchanged /\ UNCHANGED agentVars

\* _setup_console_handler: BaseLogger.console_handlers[self.logger.name] = ch
TConsoleStore(t) ==
    /\ tpc[t] = "ch_store"
    /\ console_handlers' = Put(console_handlers, ChanOf(t), tfh[t])
    /\ tfh' = [tfh EXCEPT ![t] = 0]
    /\ Goto(t, "set_level")
    /\ UNCHANGED <<handlers, file_handlers, loggerLevel, attached, made, tchan>>
    /\ LogQuietUnchanged /\ UNCHANGED agentVars

\* BaseLogger.__init__: self.logger.setLevel(...); Logger.__init__ then
\* goes on to the next entry of Logging.Files
TSetLevel(t) ==
    /\ tpc[t] = "set_level"
    /\ loggerLevel' = [loggerLevel EXCEPT ![ChanOf(t)] =
                          IF enabled THEN GetLevelCode(files[ChanOf(t)]) ELSE DISABLED]
    /\ made' = [made EXCEPT ![ChanOf(t)] = TRUE]
    /\ IF tchan[t] < Len(ChannelOrder)
       THEN tchan' = [tchan EXCEPT ![t] = @ + 1] /\ Goto(t, "start")
       ELSE tchan' = tchan /\ Goto(t, "done")
    /\ UNCHANGED <<handlers, file_handlers, console_handlers, attached, tfh>>
    /\ LogQuietUnchanged /\ UNCHANGED agentVars

ThreadsInit ==
    /\ tpc = [t \in Threads |-> "start"]
    /\ tchan = [t \in Threads |-> 1]
    /\ tfh = [t \in Threads |-> 0]

InitLogConc == AgentQuiet /\ LogInit /\ ThreadsInit /\ CallsIdle

NextLogConc ==
    \E t \in Threads :
        \/ TStart(t)
        \/ TFileCheck(t)
        \/ TFileCreate(t)
        \/ TFileStore(t)
        \/ TConsoleCheck(t)
        \/ TConsoleCreate(t)
        \/ TConsoleStore(t)
        \/ TSetLevel(t)

SpecLogConc == InitLogConc /\ [][NextLogConc]_vars

(***************************************************************************)
(* Properties of the Logger multiplexer                                    *)
(***************************************************************************)
\* the handler objects created for a key
SinksOf(kind, key) ==
    {h \in DOMAIN handlers : handlers[h].kind = kind /\ handlers[h].key = key}

\* the handlers of a kind attached to the logger of channel n
AttachedOf(n, kind) == {h \in Range(attached[n]) : handlers[h].kind = kind}

NoDuplicates(seq) == \A i, j \in DOMAIN seq : seq[i] = seq[j] => i = j

\* how often the message itself (not its exception-context record) was written
MsgCount(recs) == Cardinality({i \in DOMAIN recs : recs[i].kind = "msg"})

\* debug < info < warning < error < critical
Rank(l) ==
    CASE l = "debug" -> 1 [] l = "info" -> 2 [] l = "warning" -> 3
      [] l = "error" -> 4 [] l = "critical" -> 5

OneSinkPerKey ==
    /\ \A n \in Channels : Cardinality(SinksOf("file", FileOf(n))) <= 1
    /\ \A n \in Channels : Cardinality(SinksOf("console", n)) <= 1

\* C7: with logging enabled, after any sequence of constructions there is at
\* most one file sink per file name and one console sink per channel name,
\* the registry names exactly these, a constructed channel has its file sink
\* and its console sink attached once each, and a message logged once is
\* written once to each sink whose threshold and channel threshold admit it
\* and never more than once.
C7_SinksDeduplicated ==
    enabled =>
        /\ OneSinkPerKey
        /\ \A f \in DOMAIN file_handlers : SinksOf("file", f) = {file_handlers[f]}
        /\ \A n \in DOMAIN console_handlers : SinksOf("console", n) = {console_handlers[n]}
        /\ \A n \in Channels :
              /\ NoDuplicates(attached[n])
              /\ made[n] => /\ AttachedOf(n, "file") = SinksOf("file", FileOf(n))
                            /\ AttachedOf(n, "console") = SinksOf("console", n)
                            /\ Len(attached[n]) = 2
        /\ lastOp.op = "log_msg" =>
              \A h \in DOMAIN handlers :
                 MsgCount(out[h]) =
                    IF /\ h \in Range(attached[lastOp.chan])
                       /\ GetLevelCode(lastOp.level) >= loggerLevel[lastOp.chan]
                       /\ GetLevelCode(lastOp.level) >= handlers[h].level
                    THEN 1 ELSE 0

\* a message written once to both sinks of a channel that was constructed
\* more than once (its sinks kept the threshold of the first construction)
C7_Witness ==
    /\ enabled /\ lastOp.op = "log_msg" /\ lastSet = None
    /\ \A h \in Range(attached[lastOp.chan]) :
          handlers[h].level # loggerLevel[lastOp.chan] /\ MsgCount(out[h]) = 1
    /\ Len(attached[lastOp.chan]) = 2

\* C8 as stated: under every interleaving of concurrent constructions,
\* exactly one file sink and one console sink are created per channel.
C8_ConcurrentOneSinkPerKey ==
    /\ OneSinkPerKey
    /\ \A n \in Channels : NoDuplicates(attached[n]) /\ Len(attached[n]) <= 2

\* C9: with logging enabled, set_level(L) leaves the channel threshold and
\* the threshold of every attached sink at L, and a message logged next on
\* that channel at level M reaches the file sink and the console sink once
\* each when rank(M) >= rank(L), and neither when rank(M) < rank(L).
C9_SeverityFilters ==
    (enabled /\ lastSet # None /\ Val(lastSet).level \in ValidNames) =>
        LET c == Val(lastSet).chan
            L == Val(lastSet).level
        IN /\ loggerLevel[c] = GetLevelCode(L)
           /\ \A h \in Range(attached[c]) : handlers[h].level = GetLevelCode(L)
           /\ AttachedOf(c, "file") # {} /\ AttachedOf(c, "console") # {}
           /\ (lastOp.op = "log_msg" /\ lastOp.chan = c /\ lastOp.level \in ValidNames) =>
                 \A h \in Range(attached[c]) :
                    /\ Rank(lastOp.level) >= Rank(L) => MsgCount(out[h]) = 1
                    /\ Rank(lastOp.level) < Rank(L) => out[h] = <<>>

\* a warning admitted by both sinks after the threshold was lowered to info
C9_Witness ==
    /\ enabled /\ lastSet = Some([chan |-> "AgentForge", level |-> "info"])
    /\ files["AgentForge"] = "error"
    /\ lastOp = Op("log_msg", "AgentForge", "warning")
    /\ \A h \in Range(attached["AgentForge"]) : MsgCount(out[h]) = 1

\* C10 as stated: with logging disabled, a log_msg call in any reachable
\* state writes to no file sink and to no console, and returns normally.
C10_DisabledIsNoOp ==
    (~enabled /\ lastOp.op = "log_msg") =>
        /\ \A h \in DOMAIN out : out[h] = <<>>
        /\ rootOut = <<>>
        /\ raised = "none"

\* C11 as stated: log_msg and set_level called with a level name that is not
\* one of debug, info, warning, error, critical (in any case) fail with an
\* invalid-level error, write nothing to any sink and change no threshold.
C11_InvalidLevelFails ==
    (lastOp.op \in {"log_msg", "set_level"} /\ LowerLevel(lastOp.level) \notin ValidNames) =>
        /\ raised = "ValueError"
        /\ \A h \in DOMAIN out : out[h] = <<>>
        /\ rootOut = <<>>
        /\ lastSet = None

\* C12 as stated: log(message, level, 'all') calls log_msg once on every
\* configured channel with the message prefixed by [caller], for each of the
\* five levels; log(message, level, name) calls it on the channel `name`
\* only, and no sink of another channel is written.
C12_LogReachesAllOrOne ==
    (lastOp.op = "log" /\ lastOp.level \in ValidNames) =>
        /\ lastOp.chan = "all" =>
              /\ Len(calls) = Len(ChannelOrder)
              /\ \A i \in DOMAIN calls :
                    calls[i] = Call(ChannelOrder[i], MsgWithCaller(CallerName, Msg),
                                    lastOp.level)
        /\ lastOp.chan \in Channels =>
              /\ calls = <<Call(lastOp.chan, MsgWithCaller(CallerName, Msg), lastOp.level)>>
              /\ \A h \in DOMAIN out :
                    h \notin Range(attached[lastOp.chan]) => out[h] = <<>>

\* C17 as stated, with logging enabled: constructing another Logger after
\* set_level(L) on a channel leaves the threshold of that channel and of each
\* of its sinks at L, and leaves every channel threshold equal to the
\* threshold of each attached sink.
C17_ConstructionKeepsThreshold ==
    [][(NewLogger /\ enabled /\ lastSet # None) =>
          LET c == Val(lastSet).chan
              L == GetLevelCode(Val(lastSet).level)
          IN /\ loggerLevel'[c] = L
             /\ \A h \in Range(attached'[c]) : handlers'[h].level = L
             /\ \A n \in Channels : \A h \in Range(attached'[n]) :
                   handlers'[h].level = loggerLevel'[n]]_vars

\* the kinds of the records written, in order
Kinds(recs) == [i \in DOMAIN recs |-> recs[i].kind]

\* the threshold a record passes to be written by sink h of channel n
Threshold(n, h) ==
    IF loggerLevel[n] >= handlers[h].level THEN loggerLevel[n] ELSE handlers[h].level

\* C19 as stated: with logging enabled, a sink that writes the message of a
\* log_msg call writes one record for debug, info and warning, and the
\* message followed by one exception-context record for error and critical;
\* the call returns for debug..error and raises for critical.
C19_AsStated ==
    (enabled /\ lastOp.op = "log_msg" /\ lastOp.level \in ValidNames) =>
        /\ (raised = "none") <=> (lastOp.level # "critical")
        /\ \A h \in Range(attached[lastOp.chan]) :
              Kinds(out[h]) \in
                 {<<>>, IF lastOp.level \in {"error", "critical"}
                        THEN <<"msg", "exc">> ELSE <<"msg">>}

\* C19 amended: the same, where the exception-context record has error
\* severity: a sink under a threshold of critical writes a critical message
\* without it.
C19_LogMsgRecords ==
    (enabled /\ lastOp.op = "log_msg" /\ lastOp.level \in ValidNames) =>
        LET n == lastOp.chan
            l == lastOp.level
        IN /\ l \in {"debug", "info", "warning", "error"} => raised = "none"
           /\ l = "critical" => raised \in {"inflight", "RuntimeError"}
           /\ \A h \in Range(attached[n]) :
                 Kinds(out[h]) =
                    IF GetLevelCode(l) < Threshold(n, h) THEN <<>>
                    ELSE IF l \in {"debug", "info", "warning"} THEN <<"msg">>
                    ELSE IF l = "error" THEN <<"msg", "exc">>
                    ELSE IF Threshold(n, h) <= ERROR THEN <<"msg", "exc">>
                    ELSE <<"msg">>
           /\ \A h \in DOMAIN out : h \notin Range(attached[n]) => out[h] = <<>>

\* a critical message written with its exception-context record to both
\* sinks of a channel, outside any fault handling: the call raised
C19_Witness ==
    /\ enabled /\ lastOp = Op("log_msg", "Results", "critical")
    /\ raised = "RuntimeError"
    /\ Len(attached["Results"]) = 2
    /\ \A h \in Range(attached["Results"]) : Kinds(out[h]) = <<"msg", "exc">>
====
